---------------------------- MODULE Spec2Model ----------------------------
(***************************************************************************)
(* A model of the coverage-verification core of RectilinearDroneSearching  *)
(* (src/utils.py): the precision controller, the quadtree and scanline     *)
(* coverage checkers, the interval merge, binary_search and                *)
(* get_distance_traveled.                                                  *)
(*                                                                         *)
(* Numbers.  The program computes in binary floating point.  The model     *)
(* computes exactly, on rationals:                                         *)
(*   - a coordinate, radius or side length is an integer number of grid    *)
(*     units, one unit being 1/Scale with Scale a power of two, so that    *)
(*     every value the quadtree produces (halved side lengths, corner      *)
(*     coordinates, squared distances) is represented exactly, as it is    *)
(*     in floating point;                                                  *)
(*   - epsilon is a rational [n, d] (n/d), so that the values the          *)
(*     controller produces (1, 1/10, 1/100, ...) are represented exactly;  *)
(*   - a square root is rounded to the nearest representable value of the  *)
(*     fixed-point grid it is computed on (IEEE rounds to the nearest      *)
(*     float).                                                             *)
(***************************************************************************)
EXTENDS Integers, Sequences, FiniteSets, TLC

VARIABLES
    precision,                \* PRECISION.precision
    epsilon,                  \* PRECISION.epsilon, a rational [n, d]
    unit_circle_polygon,      \* PRECISION.unit_circle_polygon
    next_id,                  \* identity of the next polygon object allocated
    last_call,                \* the last set_precision call: its argument and the state before it
    op,                       \* the function called last (or running)
    pc,                       \* "idle", "running" or "done"
    ret,                      \* the value the last call returned (or the error it raised)
    circles,                  \* the circle list the checkers are called with
    q,                        \* the deque of the breadth-first searches
    lines,                    \* the argument of get_line_union
    start,                    \* binary_search: start
    end,                      \* binary_search: end
    largest_failure,          \* binary_search: largest_failure
    smallest_success,         \* binary_search: smallest_success
    smallest_success_circles, \* binary_search: smallest_success_circles
    evaluator,                \* binary_search: the evaluator passed in
    calls,                    \* binary_search: the evaluator calls made so far, in order
    bounds,                   \* binary_search: the start and end it was called with
    idx,                      \* get_distance_traveled: position of the for loop
    distance,                 \* get_distance_traveled: distance
    current_point,            \* get_distance_traveled: current_point
    max_ct,                   \* get_distance_traveled: max_ct
    shortcut_at               \* get_distance_traveled: positions where the last-circle branch ran

precVars == <<precision, epsilon, unit_circle_polygon, next_id, last_call>>
callVars == <<op, pc, ret>>
quadVars == <<circles, q>>
searchVars == <<start, end, largest_failure, smallest_success,
                smallest_success_circles, evaluator, calls, bounds>>
distVars == <<idx, distance, current_point, max_ct, shortcut_at>>
vars == <<precVars, callVars, quadVars, lines, searchVars, distVars>>

\* An optional value: None, or Some(v), whose value is Value(o).
None == <<>>
Some(v) == <<v>>
Value(o) == o[1]

(***************************************************************************)
(* Bounds of the model.                                                    *)
(***************************************************************************)
LogScale == 3           \* the grid unit is 1 / 2^LogScale
MaxCircles == 2         \* longest circle list
MaxPrecision == 13      \* set_precision arguments are 0 .. MaxPrecision
MaxAllocs == 6          \* polygon objects allocated in one behaviour

Scale == 2 ^ LogScale

(***************************************************************************)
(* Rationals [n, d] with d > 0.                                            *)
(***************************************************************************)
Rat(n, d) == [n |-> n, d |-> d]
RatLess(a, b) == a.n * b.d < b.n * a.d
RatLeq(a, b) == a.n * b.d <= b.n * a.d

Abs(i) == IF i < 0 THEN -i ELSE i
Max(a, b) == IF b > a THEN b ELSE a
Min(a, b) == IF b < a THEN b ELSE a

\* The square root of n rounded to the nearest integer (halves round up).
\* The largest r in lo .. hi with r * r <= n, by bisection (lo * lo <= n < (hi + 1)^2).
RECURSIVE ISqrtBetween(_, _, _)
ISqrtBetween(n, lo, hi) ==
    IF lo = hi THEN lo
    ELSE LET mid == (lo + hi + 1) \div 2
         IN IF mid * mid <= n THEN ISqrtBetween(n, mid, hi) ELSE ISqrtBetween(n, lo, mid - 1)

RECURSIVE BitsAbove(_, _)
BitsAbove(n, b) == IF b * b > n THEN b ELSE BitsAbove(n, 2 * b)

Sqrt(n) ==
    LET r == ISqrtBetween(n, 0, BitsAbove(n, 1))
    IN IF n - r * r > r THEN r + 1 ELSE r

(***************************************************************************)
(* Circle, Square, HorizontalLine and UNIT_CIRCLE (utils.py 17-37).        *)
(***************************************************************************)
Circle(x, y, r) == [x |-> x, y |-> y, r |-> r]
Square(x, y, side_length) == [x |-> x, y |-> y, side_length |-> side_length]
HorizontalLine(s, e) == [start |-> s, end |-> e]

UNIT_CIRCLE == Circle(0, 0, Scale)

(***************************************************************************)
(* The precision controller (utils.py 39-61).                              *)
(***************************************************************************)
MaxQuadSegs == 2 ^ 20
\* pi / 2 = 1.5707963267..., so HalfPiE7 < 10^7 * pi / 2 < HalfPiE7 + 1.
HalfPiE7 == 15707963

\* 1 / 10 ** k for an integer k: Python computes 10 ** k as a float when k < 0.
TenToMinus(k) == IF k >= 0 THEN Rat(1, 10 ^ k) ELSE Rat(10 ^ (-k), 1)

RECURSIVE Log10(_)
Log10(d) == IF d < 10 THEN 0 ELSE 1 + Log10(d \div 10)

\* min(math.ceil(circle.r * math.pi / 2 / self.epsilon), 2 ** 20), line 57, for a
\* radius r in grid units and eps = n / 10^k.  x = r * pi / (2 * eps) is not an
\* integer, so ceil(x) = floor(x) + 1; floor(x) is computed from the first
\* k + 1 digits of pi / 2, which is exact for the unit circle with n = 1, the
\* only polygon the controller caches.
QuadSegs(r, eps) ==
    LET k == Log10(eps.d)
    IN IF k > 7
       THEN MaxQuadSegs
       ELSE Min((r * (HalfPiE7 \div 10 ^ (7 - k))) \div (Scale * eps.n) + 1, MaxQuadSegs)

\* shapely.Point(x, y).buffer(r, quad_segs=...): the polygon is identified by
\* what it was built from, and by its identity as an object.
Buffer(circle, quad_segs, id) ==
    [x |-> circle.x, y |-> circle.y, r |-> circle.r, quad_segs |-> quad_segs, id |-> id]

get_circle_polygon(circle, eps, id) == Buffer(circle, QuadSegs(circle.r, eps), id)

\* The fields of PRECISION = Precision(): the dataclass defaults, then
\* __post_init__, which builds the polygon from the default epsilon.
DefaultPrecision == 7
DefaultEpsilon == Rat(1, 1000)

PrecisionInit ==
    /\ precision = DefaultPrecision
    /\ epsilon = DefaultEpsilon
    /\ unit_circle_polygon = get_circle_polygon(UNIT_CIRCLE, DefaultEpsilon, 1)
    /\ next_id = 2
    /\ last_call = None

\* What a set_precision call is recorded with: its argument and the three
\* fields as they were when it was called.
Snapshot(p) ==
    [arg |-> p, precision |-> precision, epsilon |-> epsilon,
     unit_circle_polygon |-> unit_circle_polygon]

\* set_precision without its early return: every call recomputes.
set_precision_always(p) ==
    /\ next_id <= MaxAllocs
    /\ precision' = p
    /\ epsilon' = TenToMinus(p \div 2)
    /\ unit_circle_polygon' = get_circle_polygon(UNIT_CIRCLE, epsilon', next_id)
    /\ next_id' = next_id + 1
    /\ last_call' = Some(Snapshot(p))

\* set_precision that builds the polygon before it updates epsilon.
set_precision_stale(p) ==
    \/ /\ p = precision
       /\ last_call' = Some(Snapshot(p))
       /\ UNCHANGED <<precision, epsilon, unit_circle_polygon, next_id>>
    \/ /\ p # precision
       /\ next_id <= MaxAllocs
       /\ precision' = p
       /\ unit_circle_polygon' = get_circle_polygon(UNIT_CIRCLE, epsilon, next_id)
       /\ epsilon' = TenToMinus(p \div 2)
       /\ next_id' = next_id + 1
       /\ last_call' = Some(Snapshot(p))

\* Precision.set_precision, lines 48-54.
set_precision(p) ==
    \/ /\ p = precision
       /\ last_call' = Some(Snapshot(p))
       /\ UNCHANGED <<precision, epsilon, unit_circle_polygon, next_id>>
    \/ /\ p # precision
       /\ next_id <= MaxAllocs
       /\ precision' = p
       /\ epsilon' = TenToMinus(p \div 2)
       /\ unit_circle_polygon' = get_circle_polygon(UNIT_CIRCLE, epsilon', next_id)
       /\ next_id' = next_id + 1
       /\ last_call' = Some(Snapshot(p))

(***************************************************************************)
(* Geometry primitives (utils.py 183-193).                                 *)
(***************************************************************************)
is_point_covered(circle, x, y) ==
    (x - circle.x) * (x - circle.x) + (y - circle.y) * (y - circle.y) <= circle.r * circle.r

\* is_point_covered_by_any with all() in place of any().
is_point_covered_by_all(cs, x, y) ==
    \A i \in 1..Len(cs) : is_point_covered(cs[i], x, y)

is_point_covered_by_any(cs, x, y) ==
    \E i \in 1..Len(cs) : is_point_covered(cs[i], x, y)

is_fully_covered(square, circle) ==
    /\ is_point_covered(circle, square.x, square.y)
    /\ is_point_covered(circle, square.x + square.side_length, square.y)
    /\ is_point_covered(circle, square.x, square.y + square.side_length)
    /\ is_point_covered(circle, square.x + square.side_length, square.y + square.side_length)

(***************************************************************************)
(* What the quadtree functions compute for one square; the code repeats    *)
(* these lines in each of them (198-200, 215-225, 232-239, ...).           *)
(***************************************************************************)
Corners(square) ==
    LET x == square.x
        y == square.y
        side_length == square.side_length
    IN <<(<<x, y>>), (<<x + side_length, y>>), (<<x, y + side_length>>),
         (<<x + side_length, y + side_length>>)>>

num_outside_unit_circle(square) ==
    Cardinality({i \in 1..4 :
        ~is_point_covered(UNIT_CIRCLE, Corners(square)[i][1], Corners(square)[i][2])})

num_uncovered_corners(cs, square) ==
    Cardinality({i \in 1..4 :
        /\ is_point_covered(UNIT_CIRCLE, Corners(square)[i][1], Corners(square)[i][2])
        /\ ~is_point_covered_by_any(cs, Corners(square)[i][1], Corners(square)[i][2])})

\* The resolution test made on side_length instead of new_side_length.
BelowEpsilon_unhalved(side_length) == side_length * epsilon.d < epsilon.n * Scale

\* new_side_length < PRECISION.epsilon, for new_side_length = side_length / 2 with
\* side_length in grid units.
BelowEpsilon(side_length) == side_length * epsilon.d < 2 * epsilon.n * Scale

subsquares(square) ==
    LET x == square.x
        y == square.y
        new_side_length == square.side_length \div 2
    IN <<Square(x, y, new_side_length),
         Square(x + new_side_length, y, new_side_length),
         Square(x, y + new_side_length, new_side_length),
         Square(x + new_side_length, y + new_side_length, new_side_length)>>

\* The four top-level quadrants, in the order every function lists them.
Quadrants ==
    <<Square(-Scale, -Scale, Scale), Square(-Scale, 0, Scale),
      Square(0, -Scale, Scale), Square(0, 0, Scale)>>

(***************************************************************************)
(* is_square_covered and covers_unit_circle (utils.py 195-226, 351-354).   *)
(***************************************************************************)
\* is_square_covered reporting a square at the resolution limit as uncovered.
RECURSIVE is_square_covered_limit_fails(_, _)
is_square_covered_limit_fails(cs, square) ==
    IF num_outside_unit_circle(square) = 4 THEN TRUE
    ELSE IF \E i \in 1..4 :
                /\ is_point_covered(UNIT_CIRCLE, Corners(square)[i][1], Corners(square)[i][2])
                /\ ~is_point_covered_by_any(cs, Corners(square)[i][1], Corners(square)[i][2])
         THEN FALSE
    ELSE IF \E i \in 1..Len(cs) : is_fully_covered(square, cs[i]) THEN TRUE
    ELSE IF BelowEpsilon(square.side_length) THEN FALSE
    ELSE \A i \in 1..4 : is_square_covered_limit_fails(cs, subsquares(square)[i])

\* is_square_covered failing a square outright only when all 4 of its corners
\* are uncovered ("> 3"), as the breadth-first search for an uncovered square does.
RECURSIVE is_square_covered_fails_on_four(_, _)
is_square_covered_fails_on_four(cs, square) ==
    IF num_outside_unit_circle(square) = 4 THEN TRUE
    ELSE IF num_uncovered_corners(cs, square) > 3 THEN FALSE
    ELSE IF \E i \in 1..Len(cs) : is_fully_covered(square, cs[i]) THEN TRUE
    ELSE IF BelowEpsilon(square.side_length) THEN TRUE
    ELSE \A i \in 1..4 : is_square_covered_fails_on_four(cs, subsquares(square)[i])

RECURSIVE is_square_covered(_, _)
is_square_covered(cs, square) ==
    IF num_outside_unit_circle(square) = 4 THEN TRUE
    ELSE IF \E i \in 1..4 :
                /\ is_point_covered(UNIT_CIRCLE, Corners(square)[i][1], Corners(square)[i][2])
                /\ ~is_point_covered_by_any(cs, Corners(square)[i][1], Corners(square)[i][2])
         THEN FALSE
    ELSE IF \E i \in 1..Len(cs) : is_fully_covered(square, cs[i]) THEN TRUE
    ELSE IF BelowEpsilon(square.side_length) THEN TRUE
    ELSE \A i \in 1..4 : is_square_covered(cs, subsquares(square)[i])

covers_unit_circle(cs) ==
    \A i \in 1..4 : is_square_covered(cs, Quadrants[i])

(***************************************************************************)
(* get_all_uncovered_squares (utils.py 228-265): the squares the generator *)
(* yields, in order.                                                       *)
(***************************************************************************)
RECURSIVE get_uncovered_squares(_, _)
get_uncovered_squares(cs, square) ==
    IF num_outside_unit_circle(square) = 4 THEN <<>>
    ELSE IF num_uncovered_corners(cs, square) > 3 THEN <<square>>
    ELSE IF /\ num_uncovered_corners(cs, square) = 0
            /\ \E i \in 1..Len(cs) : is_fully_covered(square, cs[i])
         THEN <<>>
    ELSE IF BelowEpsilon(square.side_length) THEN <<>>
    ELSE get_uncovered_squares(cs, subsquares(square)[1])
         \o get_uncovered_squares(cs, subsquares(square)[2])
         \o get_uncovered_squares(cs, subsquares(square)[3])
         \o get_uncovered_squares(cs, subsquares(square)[4])

get_all_uncovered_squares(cs) ==
    get_uncovered_squares(cs, Quadrants[1]) \o get_uncovered_squares(cs, Quadrants[2])
    \o get_uncovered_squares(cs, Quadrants[3]) \o get_uncovered_squares(cs, Quadrants[4])

(***************************************************************************)
(* The squares a full subdivision examines from a square on, in order: the *)
(* corners are counted, and the square is pruned, failed or yielded,       *)
(* dropped as fully covered, dropped at the resolution limit, or           *)
(* subdivided.                                                             *)
(* The threshold is 3 in get_all_uncovered_squares and                     *)
(* get_biggest_uncovered_square, 0 in get_biggest_semicovered_square and   *)
(* is_square_covered (which fails on any uncovered corner).                *)
(***************************************************************************)
RECURSIVE Examined(_, _, _)
Examined(cs, square, threshold) ==
    <<square>> \o
        IF num_outside_unit_circle(square) = 4 THEN <<>>
        ELSE IF num_uncovered_corners(cs, square) > threshold THEN <<>>
        ELSE IF /\ num_uncovered_corners(cs, square) = 0
                /\ \E i \in 1..Len(cs) : is_fully_covered(square, cs[i])
             THEN <<>>
        ELSE IF BelowEpsilon(square.side_length) THEN <<>>
        ELSE Examined(cs, subsquares(square)[1], threshold)
             \o Examined(cs, subsquares(square)[2], threshold)
             \o Examined(cs, subsquares(square)[3], threshold)
             \o Examined(cs, subsquares(square)[4], threshold)

(***************************************************************************)
(* The scanline checker (utils.py 133-181).  A height y and the chords at  *)
(* it are in fine units, 1 / (Scale * epsilon.d), in which the grid and    *)
(* the samples y = -1 + i * epsilon are both whole numbers.                *)
(***************************************************************************)
Fine(v) == v * epsilon.d

get_horizontal_line(circle, y) ==
    IF Abs(y - Fine(circle.y)) > Fine(circle.r)
    THEN None
    ELSE LET delta == Sqrt(Fine(circle.r) * Fine(circle.r)
                           - (y - Fine(circle.y)) * (y - Fine(circle.y)))
         IN Some(HorizontalLine(Fine(circle.x) - delta, Fine(circle.x) + delta))

\* sorted(lines, key=lambda line: line.start): a stable sort.
RECURSIVE InsertByStart(_, _)
InsertByStart(sorted, line) ==
    IF sorted = <<>> THEN <<line>>
    ELSE IF Head(sorted).start <= line.start
         THEN <<Head(sorted)>> \o InsertByStart(Tail(sorted), line)
         ELSE <<line>> \o sorted

RECURSIVE SortedByStart(_)
SortedByStart(ls) ==
    IF ls = <<>> THEN <<>>
    ELSE InsertByStart(SortedByStart(SubSeq(ls, 1, Len(ls) - 1)), ls[Len(ls)])

\* The for loop of get_line_union with < in place of <=: touching lines stay apart.
RECURSIVE MergeLoopStrict(_, _, _)
MergeLoopStrict(rest, current, merged_lines) ==
    IF rest = <<>> THEN Append(merged_lines, current)
    ELSE LET line == Head(rest)
         IN IF line.start < current.end
            THEN MergeLoopStrict(Tail(rest),
                                 HorizontalLine(current.start, Max(current.end, line.end)),
                                 merged_lines)
            ELSE MergeLoopStrict(Tail(rest), line, Append(merged_lines, current))

\* The for loop of get_line_union, lines 151-160.
RECURSIVE MergeLoop(_, _, _)
MergeLoop(rest, current, merged_lines) ==
    IF rest = <<>> THEN Append(merged_lines, current)
    ELSE LET line == Head(rest)
         IN IF line.start <= current.end
            THEN MergeLoop(Tail(rest),
                           HorizontalLine(current.start, Max(current.end, line.end)),
                           merged_lines)
            ELSE MergeLoop(Tail(rest), line, Append(merged_lines, current))

get_line_union(ls) ==
    IF ls = <<>> THEN <<>>
    ELSE LET sorted_lines == SortedByStart(ls)
         IN MergeLoop(Tail(sorted_lines), Head(sorted_lines), <<>>)

\* [line for circle in circles for line in [get_horizontal_line(circle, y)]
\*  if line is not None]
RECURSIVE ChordsAt(_, _)
ChordsAt(cs, y) ==
    IF cs = <<>> THEN <<>>
    ELSE LET line == get_horizontal_line(Head(cs), y)
         IN (IF line = None THEN <<>> ELSE <<Value(line)>>) \o ChordsAt(Tail(cs), y)

do_circles_cover_unit_circle(cs, y) ==
    LET union == get_line_union(ChordsAt(cs, y))
        unit_circle_line == get_horizontal_line(UNIT_CIRCLE, y)
    IN IF unit_circle_line = None THEN TRUE
       ELSE \E i \in 1..Len(union) :
                /\ union[i].start <= Value(unit_circle_line).start
                /\ union[i].end >= Value(unit_circle_line).end

\* The while loop of covers_unit_circle_2 from height y on.
RECURSIVE ScanFrom(_, _)
ScanFrom(cs, y) ==
    IF y < Fine(Scale)
    THEN IF ~do_circles_cover_unit_circle(cs, y) THEN FALSE
         ELSE ScanFrom(cs, y + epsilon.n * Scale)
    ELSE TRUE

covers_unit_circle_2(cs) == ScanFrom(cs, Fine(-Scale))

(***************************************************************************)
(* Calls.  The functions below keep nothing from one call to the next, so *)
(* a behaviour makes one call: it starts from "idle", and the result stays *)
(* in ret once the call is "done".                                         *)
(***************************************************************************)
Callable == pc = "idle"

Returns(name, value) ==
    /\ op' = name
    /\ pc' = "done"
    /\ ret' = value

Returned(name) == pc = "done" /\ op = name

Call_covers_unit_circle ==
    /\ Callable
    /\ Returns("covers_unit_circle", covers_unit_circle(circles))
    /\ UNCHANGED <<precVars, quadVars, lines, searchVars, distVars>>

Call_covers_unit_circle_2 ==
    /\ Callable
    /\ Returns("covers_unit_circle_2", covers_unit_circle_2(circles))
    /\ UNCHANGED <<precVars, quadVars, lines, searchVars, distVars>>

\* list(get_all_uncovered_squares(circles)): the generator run to its end.
Call_get_all_uncovered_squares ==
    /\ Callable
    /\ Returns("get_all_uncovered_squares", get_all_uncovered_squares(circles))
    /\ UNCHANGED <<precVars, quadVars, lines, searchVars, distVars>>

(***************************************************************************)
(* get_biggest_uncovered_square (utils.py 267-307), one action per         *)
(* iteration of its while loop.                                            *)
(***************************************************************************)
Enter(name) ==
    /\ Callable
    /\ op' = name
    /\ pc' = "running"
    /\ ret' = None
    /\ q' = Quadrants
    /\ UNCHANGED <<precVars, circles, lines, searchVars, distVars>>

\* One iteration for the square taken from the deque, the rest of the deque
\* being rest; a square qualifies when more than threshold corners are uncovered.
Examine(square, rest, threshold) ==
    IF num_outside_unit_circle(square) = 4
    THEN q' = rest /\ UNCHANGED callVars
    ELSE IF num_uncovered_corners(circles, square) > threshold
    THEN q' = rest /\ Returns(op, Some(square))
    ELSE IF /\ num_uncovered_corners(circles, square) = 0
            /\ \E i \in 1..Len(circles) : is_fully_covered(square, circles[i])
    THEN q' = rest /\ UNCHANGED callVars
    ELSE IF BelowEpsilon(square.side_length)
    THEN q' = rest /\ UNCHANGED callVars
    ELSE q' = rest \o subsquares(square) /\ UNCHANGED callVars

\* The loop with q.pop() in place of q.popleft(): a depth-first search.
biggest_uncovered_iteration_pop ==
    /\ pc = "running" /\ op = "get_biggest_uncovered_square"
    /\ q # <<>>
    /\ Examine(q[Len(q)], SubSeq(q, 1, Len(q) - 1), 3)
    /\ UNCHANGED <<precVars, circles, lines, searchVars, distVars>>

\* The loop returning a square as soon as 3 of its corners are uncovered.
biggest_uncovered_iteration_3 ==
    /\ pc = "running" /\ op = "get_biggest_uncovered_square"
    /\ q # <<>>
    /\ Examine(Head(q), Tail(q), 2)
    /\ UNCHANGED <<precVars, circles, lines, searchVars, distVars>>

biggest_uncovered_iteration ==
    /\ pc = "running" /\ op = "get_biggest_uncovered_square"
    /\ q # <<>>
    /\ Examine(Head(q), Tail(q), 3)
    /\ UNCHANGED <<precVars, circles, lines, searchVars, distVars>>

ReturnNone(name) ==
    /\ pc = "running" /\ op = name
    /\ q = <<>>
    /\ Returns(name, None)
    /\ UNCHANGED <<precVars, quadVars, lines, searchVars, distVars>>

get_biggest_uncovered_square ==
    \/ Enter("get_biggest_uncovered_square")
    \/ biggest_uncovered_iteration
    \/ ReturnNone("get_biggest_uncovered_square")

(***************************************************************************)
(* get_biggest_semicovered_square (utils.py 309-349).                      *)
(***************************************************************************)
\* The loop with the test "> 3" of get_biggest_uncovered_square in place of "> 0".
biggest_semicovered_iteration_3 ==
    /\ pc = "running" /\ op = "get_biggest_semicovered_square"
    /\ q # <<>>
    /\ Examine(Head(q), Tail(q), 3)
    /\ UNCHANGED <<precVars, circles, lines, searchVars, distVars>>

biggest_semicovered_iteration ==
    /\ pc = "running" /\ op = "get_biggest_semicovered_square"
    /\ q # <<>>
    /\ Examine(Head(q), Tail(q), 0)
    /\ UNCHANGED <<precVars, circles, lines, searchVars, distVars>>

get_biggest_semicovered_square ==
    \/ Enter("get_biggest_semicovered_square")
    \/ biggest_semicovered_iteration
    \/ ReturnNone("get_biggest_semicovered_square")

(***************************************************************************)
(* The checkers called on a circle list, under an epsilon.                 *)
(***************************************************************************)
Half == Scale \div 2

CircleUniverse ==
    { Circle(0, 0, Scale), Circle(0, 0, Half), Circle(0, 0, Scale + Half),
      Circle(Half, 0, Half), Circle(-Half, 0, Half), Circle(0, Half, Half),
      Circle(-Half, -Half, Scale), Circle(Half, Half, Half + Half \div 2) }

SeqsUpTo(S, n) == UNION {[1..m -> S] : m \in 0..n}

CircleLists == SeqsUpTo(CircleUniverse, MaxCircles)

\* Values of epsilon: in (0, 1] the controller's 1 and 1/10 and values that stop
\* the subdivision at each depth of the grid, and one value above 1.
EpsilonInputs ==
    {Rat(2, 1), Rat(1, 1), Rat(1, 2), Rat(3, 8), Rat(1, 4), Rat(1, 10), Rat(1, Scale)}

NoSearch ==
    /\ start = 0 /\ end = 0
    /\ largest_failure = None /\ smallest_success = None
    /\ smallest_success_circles = None
    /\ evaluator = None /\ calls = <<>> /\ bounds = None

NoDistance ==
    /\ idx = 0 /\ distance = 0 /\ current_point = <<0, 0>>
    /\ max_ct = Rat(0, 1) /\ shortcut_at = {}

NoCall == op = None /\ pc = "idle" /\ ret = None

PrecisionWith(eps) ==
    /\ precision = DefaultPrecision
    /\ epsilon = eps
    /\ unit_circle_polygon = get_circle_polygon(UNIT_CIRCLE, DefaultEpsilon, 1)
    /\ next_id = 2
    /\ last_call = None

InitCheckers ==
    /\ \E eps \in EpsilonInputs : PrecisionWith(eps)
    /\ circles \in CircleLists
    /\ q = <<>>
    /\ lines = <<>>
    /\ NoCall /\ NoSearch /\ NoDistance

NextCheckers ==
    \/ Call_covers_unit_circle
    \/ Call_covers_unit_circle_2
    \/ Call_get_all_uncovered_squares
    \/ get_biggest_uncovered_square
    \/ get_biggest_semicovered_square

SpecCheckers == InitCheckers /\ [][NextCheckers]_vars

(***************************************************************************)
(* The precision controller on its own.                                    *)
(***************************************************************************)
InitPrecision ==
    /\ PrecisionInit
    /\ circles = <<>> /\ q = <<>> /\ lines = <<>>
    /\ NoCall /\ NoSearch /\ NoDistance

NextPrecision ==
    \E p \in 0..MaxPrecision :
        /\ set_precision(p)
        /\ UNCHANGED <<callVars, quadVars, lines, searchVars, distVars>>

SpecPrecision == InitPrecision /\ [][NextPrecision]_vars

(***************************************************************************)
(* binary_search (utils.py 356-391), one action per iteration of its while *)
(* loop.  A parameter is a float: a whole number of ticks, 1 / Ticks each, *)
(* the spacing of the floats of the model (2^-52 between 1 and 2 in the    *)
(* program).  The bounds the search is called with are whole numbers, so   *)
(* the midpoints of the first LogTicks iterations are exact; a midpoint    *)
(* that falls between two floats is rounded to the even one.               *)
(***************************************************************************)
LogTicks == 5           \* a tick is 1 / 2^LogTicks
MaxHigh == 2            \* binary_search is called with bounds in -1 .. MaxHigh
MaxCalls == 7           \* evaluator calls followed in one search

Ticks == 2 ^ LogTicks

\* (start + end) / 2 in floats: the sum is rounded to even when it is odd.
Midpoint(s, e) ==
    LET m == (s + e) \div 2
    IN IF (s + e) % 2 = 0 \/ m % 2 = 0 THEN m ELSE m + 1

\* end - start > PRECISION.epsilon
WiderThanEpsilon(s, e) == (e - s) * epsilon.d > epsilon.n * Ticks

\* The evaluators binary_search is called with: a monotone one, which fails below
\* a threshold (t2 half ticks) and succeeds at and above it, or any other, whose
\* answer at each parameter is unconstrained.
Monotone(t2) == [monotone |-> TRUE, t2 |-> t2]
AnyEvaluator == [monotone |-> FALSE]

\* What evaluator(p) may return: (success, circles).
Evaluate(ev, p) ==
    IF ev.monotone
    THEN {<<2 * p >= ev.t2, <<Circle(p, 0, Scale)>> >>}
    ELSE BOOLEAN \X {<<>>, <<UNIT_CIRCLE>>}

ValueError(message) == [kind |-> "raise", error |-> message]
Result(p, cs) == [kind |-> "return", p |-> p, circles |-> cs]

binary_search_enter ==
    /\ Callable
    /\ \E s \in -1..MaxHigh, e \in -1..MaxHigh :
          /\ s <= e
          /\ start' = s * Ticks
          /\ end' = e * Ticks
          /\ bounds' = <<s * Ticks, e * Ticks>>
          /\ \E ev \in {AnyEvaluator} \cup {Monotone(t2) : t2 \in (2 * s * Ticks)..(2 * e * Ticks)} :
                evaluator' = ev
    /\ largest_failure' = None
    /\ smallest_success' = None
    /\ smallest_success_circles' = None
    /\ calls' = <<>>
    /\ op' = "binary_search" /\ pc' = "running" /\ ret' = None
    /\ UNCHANGED <<precVars, quadVars, lines, distVars>>

\* The loop body keeping the first successful configuration it sees.
binary_search_iteration_first ==
    /\ pc = "running" /\ op = "binary_search"
    /\ WiderThanEpsilon(start, end)
    /\ Len(calls) < MaxCalls
    /\ LET p == Midpoint(start, end)
       IN \E answer \in Evaluate(evaluator, p) :
             LET success == answer[1]
                 cs == answer[2]
             IN /\ calls' = Append(calls, [p |-> p, success |-> success, circles |-> cs])
                /\ IF success
                   THEN /\ end' = p
                        /\ smallest_success' = Some(p)
                        /\ smallest_success_circles' =
                              IF smallest_success_circles = None
                              THEN Some(cs) ELSE smallest_success_circles
                        /\ UNCHANGED <<start, largest_failure>>
                   ELSE /\ start' = p
                        /\ largest_failure' = Some(p)
                        /\ UNCHANGED <<end, smallest_success, smallest_success_circles>>
    /\ UNCHANGED <<precVars, callVars, quadVars, lines, evaluator, bounds, distVars>>

\* Lines 370-386.
binary_search_iteration ==
    /\ pc = "running" /\ op = "binary_search"
    /\ WiderThanEpsilon(start, end)
    /\ Len(calls) < MaxCalls
    /\ LET p == Midpoint(start, end)
       IN \E answer \in Evaluate(evaluator, p) :
             LET success == answer[1]
                 cs == answer[2]
             IN /\ calls' = Append(calls, [p |-> p, success |-> success, circles |-> cs])
                /\ IF success
                   THEN /\ end' = p
                        /\ IF smallest_success = None \/ p < Value(smallest_success)
                           THEN /\ smallest_success' = Some(p)
                                /\ smallest_success_circles' = Some(cs)
                           ELSE UNCHANGED <<smallest_success, smallest_success_circles>>
                        /\ UNCHANGED <<start, largest_failure>>
                   ELSE /\ start' = p
                        /\ IF largest_failure = None \/ p > Value(largest_failure)
                           THEN largest_failure' = Some(p)
                           ELSE UNCHANGED largest_failure
                        /\ UNCHANGED <<end, smallest_success, smallest_success_circles>>
    /\ UNCHANGED <<precVars, callVars, quadVars, lines, evaluator, bounds, distVars>>

\* The end of binary_search testing "not smallest_success" in place of "is None".
binary_search_exit_falsy ==
    /\ pc = "running" /\ op = "binary_search"
    /\ ~WiderThanEpsilon(start, end)
    /\ IF smallest_success_circles = None \/ smallest_success = None
          \/ Value(smallest_success) = 0
       THEN Returns("binary_search", ValueError("No solution found"))
       ELSE Returns("binary_search",
                    Result(Value(smallest_success), Value(smallest_success_circles)))
    /\ UNCHANGED <<precVars, quadVars, lines, searchVars, distVars>>

\* Lines 388-391.
binary_search_exit ==
    /\ pc = "running" /\ op = "binary_search"
    /\ ~WiderThanEpsilon(start, end)
    /\ IF smallest_success_circles = None \/ smallest_success = None
       THEN Returns("binary_search", ValueError("No solution found"))
       ELSE Returns("binary_search",
                    Result(Value(smallest_success), Value(smallest_success_circles)))
    /\ UNCHANGED <<precVars, quadVars, lines, searchVars, distVars>>

binary_search ==
    \/ binary_search_enter
    \/ binary_search_iteration
    \/ binary_search_exit

\* Values of epsilon for which the search ends within LogTicks iterations, and
\* one below the spacing of the floats (as 10^-17 is in the program).
SearchEpsilons ==
    {e \in {Rat(1, 1), Rat(1, 2), Rat(1, 4), Rat(1, 10)} : (MaxHigh + 1) * e.d <= e.n * Ticks}
        \cup {Rat(1, 100)}

InitSearch ==
    /\ \E eps \in SearchEpsilons : PrecisionWith(eps)
    /\ circles = <<>> /\ q = <<>> /\ lines = <<>>
    /\ NoCall /\ NoSearch /\ NoDistance

NextSearch == binary_search

SpecSearch == InitSearch /\ [][NextSearch]_vars

(***************************************************************************)
(* get_line_union called on a list of lines.                               *)
(***************************************************************************)
MaxCoord == 3           \* line ends are in 0 .. MaxCoord
MaxLines == 3           \* longest list of lines

LineUniverse ==
    {HorizontalLine(s, e) : <<s, e>> \in {t \in (0..MaxCoord) \X (0..MaxCoord) : t[1] <= t[2]}}

ExampleLines == <<HorizontalLine(0, 2), HorizontalLine(1, 3), HorizontalLine(5, 6)>>

Call_get_line_union ==
    /\ Callable
    /\ Returns("get_line_union", get_line_union(lines))
    /\ UNCHANGED <<precVars, quadVars, lines, searchVars, distVars>>

InitLines ==
    /\ PrecisionInit
    /\ lines \in SeqsUpTo(LineUniverse, MaxLines) \cup {ExampleLines}
    /\ circles = <<>> /\ q = <<>>
    /\ NoCall /\ NoSearch /\ NoDistance

NextLines == Call_get_line_union

SpecLines == InitLines /\ [][NextLines]_vars

(***************************************************************************)
(* get_distance_traveled (utils.py 399-433), one action per iteration of   *)
(* its for loop.  A distance is a whole number of 1 / (Scale * Scale), a   *)
(* square root being rounded to that grid; ct and max_ct are rationals.    *)
(***************************************************************************)
\* math.sqrt(dx ** 2 + dy ** 2) for dx, dy in grid units.
Hypot(dx, dy) == Sqrt((dx * dx + dy * dy) * Scale * Scale)

\* a * r for a distance a and a radius r in grid units, rounded to the grid.
TimesRadius(a, r) == (2 * a * r + Scale) \div (2 * Scale)

\* distance / (1 - r), which Python refuses to compute when r is 1.
Ratio(dist, r) ==
    IF r < Scale THEN Rat(dist, Scale * (Scale - r)) ELSE Rat(-dist, Scale * (r - Scale))

ZeroDivisionError == [kind |-> "raise", error |-> "ZeroDivisionError"]
Value_(v) == [kind |-> "return", value |-> v]

get_distance_traveled_enter ==
    /\ Callable
    /\ op' = "get_distance_traveled" /\ pc' = "running" /\ ret' = None
    /\ idx' = 1
    /\ distance' = 0
    /\ current_point' = <<0, 0>>
    /\ max_ct' = Rat(0, 1)
    /\ shortcut_at' = {}
    /\ UNCHANGED <<precVars, quadVars, lines, searchVars>>

\* Lines 409-431.
get_distance_traveled_iteration ==
    /\ pc = "running" /\ op = "get_distance_traveled"
    /\ idx <= Len(circles)
    /\ LET circle == circles[idx]
           is_last == circle = circles[Len(circles)]
           to_center == Hypot(circle.x - current_point[1], circle.y - current_point[2])
           distance_to_circle ==
               IF is_last
               THEN to_center - 2 * TimesRadius(Hypot(circles[1].x, circles[1].y), circle.r)
               ELSE to_center
           new_distance == distance + distance_to_circle
       IN /\ shortcut_at' = IF is_last THEN shortcut_at \cup {idx} ELSE shortcut_at
          /\ distance' = new_distance
          /\ IF circle.r = Scale
             THEN /\ Returns("get_distance_traveled", ZeroDivisionError)
                  /\ UNCHANGED <<idx, current_point, max_ct>>
             ELSE /\ max_ct' = IF RatLess(max_ct, Ratio(new_distance, circle.r))
                               THEN Ratio(new_distance, circle.r) ELSE max_ct
                  /\ current_point' = <<circle.x, circle.y>>
                  /\ idx' = idx + 1
                  /\ UNCHANGED callVars
    /\ UNCHANGED <<precVars, quadVars, lines, searchVars>>

\* Line 433.
get_distance_traveled_exit ==
    /\ pc = "running" /\ op = "get_distance_traveled"
    /\ idx > Len(circles)
    /\ Returns("get_distance_traveled", Value_(max_ct))
    /\ UNCHANGED <<precVars, quadVars, lines, searchVars, distVars>>

get_distance_traveled ==
    \/ get_distance_traveled_enter
    \/ get_distance_traveled_iteration
    \/ get_distance_traveled_exit

InitDistance ==
    /\ PrecisionInit
    /\ circles \in CircleLists
    /\ q = <<>> /\ lines = <<>>
    /\ NoCall /\ NoSearch /\ NoDistance

NextDistance == get_distance_traveled

SpecDistance == InitDistance /\ [][NextDistance]_vars

(***************************************************************************)
(* get_intersections (utils.py 444-475) called on two circles.  Lengths    *)
(* are whole numbers of 1 / (Scale * Scale); a square root and a quotient  *)
(* are rounded to that grid.                                               *)
(***************************************************************************)
MaxRadius == 8          \* radii of the mirrored pairs are 1 .. MaxRadius grid units

\* n / d for d > 0, rounded to the nearest integer.
RoundDiv(n, d) == (2 * n + d) \div (2 * d)

MathDomainError == [kind |-> "raise", error |-> "math domain error"]

get_intersections(circle1, circle2) ==
    LET dx == circle2.x - circle1.x
        dy == circle2.y - circle1.y
        r0 == circle1.r * Scale
        r1 == circle2.r * Scale
        d == Hypot(dx, dy)
        a == RoundDiv(r0 * r0 - r1 * r1 + d * d, 2 * d)
        h == Sqrt(r0 * r0 - a * a)
        x2 == circle1.x * Scale + RoundDiv(a * dx * Scale, d)
        y2 == circle1.y * Scale + RoundDiv(a * dy * Scale, d)
    IN IF d > r0 + r1 THEN Value_(None)
       ELSE IF d < Abs(r0 - r1) THEN Value_(None)
       ELSE IF d = 0 /\ r0 = r1 THEN Value_(None)
       ELSE IF r0 * r0 - a * a < 0 THEN MathDomainError
       ELSE Value_(Some(<< <<x2 + RoundDiv(h * dy * Scale, d), y2 - RoundDiv(h * dx * Scale, d)>>,
                           <<x2 - RoundDiv(h * dy * Scale, d), y2 + RoundDiv(h * dx * Scale, d)>> >>))

Call_get_intersections ==
    /\ Callable
    /\ Len(circles) = 2
    /\ Returns("get_intersections", get_intersections(circles[1], circles[2]))
    /\ UNCHANGED <<precVars, quadVars, lines, searchVars, distVars>>

\* Two circles of radius r centred at (-c, 0) and (c, 0), at distance d = 2 c.
MirroredPair(c, r) == <<Circle(-c, 0, r), Circle(c, 0, r)>>

MirroredPairs == {MirroredPair(c, r) : <<c, r>> \in (0..(MaxRadius + 1)) \X (1..MaxRadius)}

InitIntersections ==
    /\ PrecisionInit
    /\ circles \in MirroredPairs \cup [1..2 -> CircleUniverse]
    /\ q = <<>> /\ lines = <<>>
    /\ NoCall /\ NoSearch /\ NoDistance

NextIntersections == Call_get_intersections

SpecIntersections == InitIntersections /\ [][NextIntersections]_vars

(***************************************************************************)
(* Properties of the checkers, under SpecCheckers.                         *)
(***************************************************************************)
\* Every square the subdivision can reach: the quadrants, and the squares of a
\* halved side length that is not below epsilon.
SidesReached == {s \in 1..Scale : \E j \in 0..LogScale : s * 2 ^ j = Scale /\ (j = 0 \/ ~BelowEpsilon(2 * s))}

GridSquares ==
    {Square(x * s - Scale, y * s - Scale, s) :
        <<x, y, s>> \in {t \in (0..(2 * Scale - 1)) \X (0..(2 * Scale - 1)) \X SidesReached :
                            t[1] * t[3] < 2 * Scale /\ t[2] * t[3] < 2 * Scale}}

AllCornersUncovered(square) ==
    \A i \in 1..4 :
        /\ is_point_covered(UNIT_CIRCLE, Corners(square)[i][1], Corners(square)[i][2])
        /\ \A k \in 1..Len(circles) :
               ~is_point_covered(circles[k], Corners(square)[i][1], Corners(square)[i][2])

SomeCornerUncovered(square) ==
    \E i \in 1..4 :
        /\ is_point_covered(UNIT_CIRCLE, Corners(square)[i][1], Corners(square)[i][2])
        /\ \A k \in 1..Len(circles) :
               ~is_point_covered(circles[k], Corners(square)[i][1], Corners(square)[i][2])

\* C1, as stated: with an empty circle list get_biggest_uncovered_square returns
\* one of the four top-level quadrants, of side length 1.
C1_ReturnsQuadrant ==
    (Returned("get_biggest_uncovered_square") /\ circles = <<>>)
        => ret # None /\ \E i \in 1..4 : Value(ret) = Quadrants[i]

\* C1, amended: with an empty circle list get_biggest_uncovered_square returns
\* the square (-1/2, -1/2, 1/2) when epsilon <= 1/2, and None when epsilon > 1/2;
\* it never returns a quadrant, each of which has a corner outside the unit disk.
C1_ReturnsHalfSquare ==
    (Returned("get_biggest_uncovered_square") /\ circles = <<>>)
        => IF RatLeq(epsilon, Rat(1, 2))
           THEN ret = Some(Square(-Half, -Half, Half))
           ELSE ret = None

C1_Witness ==
    /\ Returned("get_biggest_uncovered_square") /\ circles = <<>>
    /\ ret = Some(Square(-Half, -Half, Half))

\* C2: get_biggest_uncovered_square returns None exactly when
\* get_all_uncovered_squares yields nothing, and otherwise a square with all 4
\* corners in the unit disk and uncovered, at least as large as every square the
\* generator yields; get_biggest_semicovered_square returns None exactly when no
\* square of the subdivision has an uncovered corner, and otherwise a square with
\* an uncovered corner, at least as large as every such square.
C2_FirstFoundIsLargest ==
    /\ Returned("get_biggest_uncovered_square") =>
          LET yielded == get_all_uncovered_squares(circles)
          IN /\ ret = None <=> yielded = <<>>
             /\ ret # None =>
                   /\ AllCornersUncovered(Value(ret))
                   /\ \A i \in 1..Len(yielded) :
                          Value(ret).side_length >= yielded[i].side_length
    /\ Returned("get_biggest_semicovered_square") =>
          /\ ret = None <=> ~\E g \in GridSquares : SomeCornerUncovered(g)
          /\ ret # None =>
                /\ SomeCornerUncovered(Value(ret))
                /\ \A g \in GridSquares :
                       g.side_length > Value(ret).side_length => ~SomeCornerUncovered(g)

C2_Witness ==
    /\ Returned("get_biggest_uncovered_square")
    /\ circles # <<>>
    /\ ret # None
    /\ \E i \in 1..Len(get_all_uncovered_squares(circles)) :
           get_all_uncovered_squares(circles)[i].side_length < Value(ret).side_length

\* C3: with an empty circle list covers_unit_circle and covers_unit_circle_2
\* both return False, whatever epsilon is.
C3_EmptyListCoversNothing ==
    /\ (Returned("covers_unit_circle") /\ circles = <<>>) => ret = FALSE
    /\ (Returned("covers_unit_circle_2") /\ circles = <<>>) => ret = FALSE

C3_Witness ==
    /\ Returned("covers_unit_circle") /\ circles = <<>>
    /\ epsilon = Rat(1, 10)
    /\ ret = FALSE

\* C4: with the unit disk itself as the only circle covers_unit_circle and
\* covers_unit_circle_2 both return True, whatever epsilon is.
C4_UnitDiskCoversItself ==
    /\ (Returned("covers_unit_circle") /\ circles = <<UNIT_CIRCLE>>) => ret = TRUE
    /\ (Returned("covers_unit_circle_2") /\ circles = <<UNIT_CIRCLE>>) => ret = TRUE

C4_Witness ==
    /\ Returned("covers_unit_circle") /\ circles = <<UNIT_CIRCLE>>
    /\ epsilon = Rat(1, Scale)
    /\ ret = TRUE

(***************************************************************************)
(* Properties of the precision controller, under SpecPrecision.            *)
(***************************************************************************)
\* C7: a set_precision(p) call made when p is the current precision leaves
\* precision, epsilon and the cached polygon (the same object, with the same
\* segment count) as they were; so does the second of two calls with the same p.
C7_SamePrecisionIsNoOp ==
    (last_call # None /\ Value(last_call).arg = Value(last_call).precision)
        => /\ precision = Value(last_call).precision
           /\ epsilon = Value(last_call).epsilon
           /\ unit_circle_polygon = Value(last_call).unit_circle_polygon

C7_Witness ==
    /\ last_call # None
    /\ Value(last_call).arg = Value(last_call).precision
    /\ precision # DefaultPrecision
    /\ unit_circle_polygon.id > 1

\* C8: epsilon is 10^-(precision // 2), and the cached polygon is the unit disk
\* tessellated with n = min(ceil(pi / (2 * epsilon)), 2^20) segments for that
\* epsilon: n - 1 = floor(10^k * pi / 2) when n < 2^20 (10^k * pi / 2 is not a
\* whole number), and floor(10^k * pi / 2) >= 2^20 - 1 when n = 2^20.
C8_FieldsConsistent ==
    LET k == precision \div 2
        n == unit_circle_polygon.quad_segs
    IN /\ epsilon.n = 1
       /\ epsilon.d = 10 ^ k
       /\ unit_circle_polygon.x = 0 /\ unit_circle_polygon.y = 0
       /\ unit_circle_polygon.r = Scale
       /\ n >= 1 /\ n <= 2 ^ 20
       /\ n < 2 ^ 20 =>
             /\ k <= 7
             /\ HalfPiE7 \div 10 ^ (7 - k) = n - 1
       /\ n = 2 ^ 20 =>
             \/ k > 7
             \/ HalfPiE7 \div 10 ^ (7 - k) >= 2 ^ 20 - 1

C8_Witness ==
    /\ last_call # None
    /\ precision = 4
    /\ epsilon = Rat(1, 100)
    /\ unit_circle_polygon.quad_segs = 158

(***************************************************************************)
(* Properties of binary_search, under SpecSearch.                          *)
(***************************************************************************)
\* C5: binary_search raises 'No solution found' exactly when no evaluator call
\* of the search reported success (none at all when the bracket is no wider than
\* epsilon on entry); otherwise it returns a result.
C5_RaisesIffNoSuccess ==
    Returned("binary_search") =>
        /\ ret.kind \in {"raise", "return"}
        /\ ret.kind = "raise" <=> \A i \in 1..Len(calls) : ~calls[i].success
        /\ ret.kind = "raise" => ret.error = "No solution found"

C5_Witness ==
    /\ Returned("binary_search")
    /\ ret.kind = "raise"
    /\ Len(calls) >= 2

\* C6: when binary_search returns (p, circles), the evaluator reported success
\* at p and returned circles there, no call succeeded at a smaller parameter, and
\* for a monotone evaluator with threshold t in [low, high], t <= p <= t + epsilon.
C6_ReturnsSmallestSuccess ==
    (Returned("binary_search") /\ ret.kind = "return") =>
        /\ \E i \in 1..Len(calls) :
              /\ calls[i].p = ret.p
              /\ calls[i].success
              /\ calls[i].circles = ret.circles
        /\ \A i \in 1..Len(calls) : calls[i].success => ret.p <= calls[i].p
        /\ evaluator.monotone =>
              /\ evaluator.t2 <= 2 * ret.p
              /\ (2 * ret.p - evaluator.t2) * epsilon.d <= 2 * epsilon.n * Ticks

C6_Witness ==
    /\ Returned("binary_search") /\ ret.kind = "return"
    /\ evaluator.monotone
    /\ evaluator.t2 < 2 * ret.p
    /\ \E i, j \in 1..Len(calls) : calls[i].success /\ ~calls[j].success

(***************************************************************************)
(* Properties of get_line_union, under SpecLines.                          *)
(***************************************************************************)
\* Whether the point h / 2 lies on one of the lines ls.
OnSome(ls, h) == \E i \in 1..Len(ls) : 2 * ls[i].start <= h /\ h <= 2 * ls[i].end

\* C9: get_line_union returns lines sorted by start, each starting strictly
\* after the one before it ends, that cover exactly the points the input covers;
\* an empty list gives an empty list, a list of lines that is already sorted and
\* pairwise disjoint is returned unchanged, and [(0,2),(1,3),(5,6)] gives
\* [(0,3),(5,6)].
C9_UnionIsMinimal ==
    Returned("get_line_union") =>
        /\ \A i \in 1..Len(ret) : ret[i].start <= ret[i].end
        /\ \A i \in 1..(Len(ret) - 1) :
              ret[i].start <= ret[i + 1].start /\ ret[i].end < ret[i + 1].start
        /\ \A h \in 0..(2 * (MaxCoord + 6)) : OnSome(ret, h) <=> OnSome(lines, h)
        /\ lines = <<>> => ret = <<>>
        /\ (\A i \in 1..(Len(lines) - 1) : lines[i].end < lines[i + 1].start) => ret = lines
        /\ lines = ExampleLines => ret = <<HorizontalLine(0, 3), HorizontalLine(5, 6)>>

C9_Witness ==
    /\ Returned("get_line_union")
    /\ Len(lines) = 3
    /\ Len(ret) = 2
    /\ lines[1].start > lines[2].start
    /\ \E i \in 1..2 : lines[i].end = lines[i + 1].start

(***************************************************************************)
(* Properties of get_distance_traveled, under SpecDistance.                *)
(***************************************************************************)
\* C10: get_distance_traveled([(0, 0, 1)]) completes without an error and
\* returns 0.
C10_UnitDiskCostsNothing ==
    (Returned("get_distance_traveled") /\ circles = <<UNIT_CIRCLE>>)
        => ret.kind = "return" /\ ret.value.n = 0

(***************************************************************************)
(* Properties of get_intersections, under SpecIntersections.               *)
(***************************************************************************)
IsMirrored == \E c \in 1..(MaxRadius + 1), r \in 1..MaxRadius : circles = MirroredPair(c, r)

\* The points returned are two different points, mirror images across the x-axis.
MirrorImages(points) ==
    /\ points[1] # points[2]
    /\ points[1][1] = points[2][1]
    /\ points[1][2] = -points[2][2]

\* C11: for two circles of equal radius r centred at (-d/2, 0) and (d/2, 0),
\* get_intersections returns two points that are mirror images across the x-axis
\* when 0 < d < 2 r, and None when d >= 2 r, d = 2 r included.
C11_TwoPointsOrNone ==
    (Returned("get_intersections") /\ IsMirrored) =>
        IF circles[2].x < circles[2].r
        THEN /\ ret.kind = "return" /\ ret.value # None
             /\ MirrorImages(Value(ret.value))
        ELSE ret = Value_(None)

\* The same away from tangency (d # 2 r).
C11_AwayFromTangency ==
    (Returned("get_intersections") /\ IsMirrored /\ circles[2].x # circles[2].r) =>
        IF circles[2].x < circles[2].r
        THEN /\ ret.kind = "return" /\ ret.value # None
             /\ MirrorImages(Value(ret.value))
        ELSE ret = Value_(None)

\* At tangency the tangent point is returned twice.
C11_TangentPointTwice ==
    (Returned("get_intersections") /\ IsMirrored /\ circles[2].x = circles[2].r) =>
        ret = Value_(Some(<< <<0, 0>>, <<0, 0>> >>))

(***************************************************************************)
(* Properties of is_square_covered, under SpecCheckers.                    *)
(***************************************************************************)
\* Lines 210-226 of is_square_covered: what it returns for a square that the
\* corner checks of lines 202-208 let through, subdividing it if need be.
is_square_covered_subdivided(cs, square) ==
    IF \E i \in 1..Len(cs) : is_fully_covered(square, cs[i]) THEN TRUE
    ELSE IF BelowEpsilon(square.side_length) THEN TRUE
    ELSE \A i \in 1..4 : is_square_covered(cs, subsquares(square)[i])

\* C12, as stated: is_square_covered fails a square outright only when all 4 of
\* its corners are in the unit disk and uncovered; a square with 1, 2 or 3
\* uncovered corners is subdivided, its verdict being that of lines 210-226.
C12_FailsOnlyOnFourCorners ==
    Returned("covers_unit_circle") =>
        \A g \in GridSquares :
            IF num_uncovered_corners(circles, g) > 3
            THEN ~is_square_covered(circles, g)
            ELSE (num_outside_unit_circle(g) < 4 /\ num_uncovered_corners(circles, g) > 0)
                     => is_square_covered(circles, g) = is_square_covered_subdivided(circles, g)

\* C12, amended: is_square_covered fails a square outright as soon as one of
\* its corners is in the unit disk and uncovered, unless all 4 corners are
\* outside the unit disk; so covers_unit_circle returns False when a quadrant
\* has such a corner.
C12_FailsOnAnyCorner ==
    Returned("covers_unit_circle") =>
        /\ \A g \in GridSquares :
               (num_outside_unit_circle(g) < 4 /\ num_uncovered_corners(circles, g) > 0)
                   => ~is_square_covered(circles, g)
        /\ (\E i \in 1..4 : num_uncovered_corners(circles, Quadrants[i]) > 0) => ret = FALSE

\* A square with one uncovered corner that the subdivision would have passed.
C12_Witness ==
    /\ Returned("covers_unit_circle")
    /\ ret = FALSE
    /\ \E g \in GridSquares :
           /\ num_uncovered_corners(circles, g) \in 1..3
           /\ ~is_square_covered(circles, g)
           /\ is_square_covered_subdivided(circles, g)

(***************************************************************************)
(* Termination and the resolution limit, under SpecCheckers.               *)
(***************************************************************************)
\* ceil(log2(1 / eps)): the least k with 2^k >= 1 / eps.
RECURSIVE CeilLog2Inverse(_, _)
CeilLog2Inverse(eps, k) == IF 2 ^ k * eps.n >= eps.d THEN k ELSE CeilLog2Inverse(eps, k + 1)

\* With epsilon <= 1 the square has a side length of at least epsilon, and a
\* depth (the number of halvings from a quadrant) of at most ceil(log2(1 / epsilon)).
WithinResolution(square) ==
    RatLeq(epsilon, Rat(1, 1)) =>
        /\ square.side_length * epsilon.d >= epsilon.n * Scale
        /\ square.side_length * 2 ^ CeilLog2Inverse(epsilon, 0) >= Scale

HalvedSideBelowEpsilon(square) == square.side_length * epsilon.d < 2 * epsilon.n * Scale

\* The square reaches the halving step (it is not pruned, failed, returned or
\* fully covered) and its halved side length is below epsilon.
AtResolutionLimit(square, threshold) ==
    /\ HalvedSideBelowEpsilon(square)
    /\ num_outside_unit_circle(square) < 4
    /\ num_uncovered_corners(circles, square) <= threshold
    /\ ~(/\ num_uncovered_corners(circles, square) = 0
         /\ \E i \in 1..Len(circles) : is_fully_covered(square, circles[i]))

ExaminedFromQuadrants(threshold) ==
    Examined(circles, Quadrants[1], threshold) \o Examined(circles, Quadrants[2], threshold)
    \o Examined(circles, Quadrants[3], threshold) \o Examined(circles, Quadrants[4], threshold)

Range(squares) == {squares[i] : i \in 1..Len(squares)}

Threshold == IF op = "get_biggest_semicovered_square" THEN 0 ELSE 3

\* Of the squares examined, in order: each is within the resolution, none with
\* a halved side length below epsilon is subdivided, and each at the
\* resolution limit counts as covered.
ResolutionLimitOn(squares, threshold) ==
    \A i \in 1..Len(squares) :
        /\ WithinResolution(squares[i])
        /\ HalvedSideBelowEpsilon(squares[i]) =>
               Examined(circles, squares[i], threshold) = <<squares[i]>>
        /\ AtResolutionLimit(squares[i], threshold) =>
               IF threshold = 0
               THEN is_square_covered(circles, squares[i])
               ELSE get_uncovered_squares(circles, squares[i]) = <<>>

C13_ResolutionLimit ==
    /\ pc = "running" => \A i \in 1..Len(q) : WithinResolution(q[i])
    /\ Returned("covers_unit_circle") => ResolutionLimitOn(ExaminedFromQuadrants(0), 0)
    /\ Returned("get_all_uncovered_squares") => ResolutionLimitOn(ExaminedFromQuadrants(3), 3)

\* A breadth-first search that dequeues a square at the resolution limit drops
\* it: nothing is enqueued and nothing is returned.
C13_DroppedAtLimit ==
    (pc = "running" /\ q # <<>> /\ AtResolutionLimit(Head(q), Threshold))
        => (q' = Tail(q) /\ pc' = "running")

\* The number of squares in the full subdivision of a square of this side length.
RECURSIVE SubdivisionSize(_)
SubdivisionSize(side_length) ==
    IF HalvedSideBelowEpsilon([side_length |-> side_length]) \/ side_length = 0 THEN 1
    ELSE 1 + 4 * SubdivisionSize(side_length \div 2)

\* The number of squares a breadth-first search with this queue may still examine.
RECURSIVE Remaining(_)
Remaining(queue) ==
    IF queue = <<>> THEN 0
    ELSE SubdivisionSize(Head(queue).side_length) + Remaining(Tail(queue))

\* An iteration of a breadth-first search returns, or takes a square off the
\* queue and adds squares with less to examine than it had; and a search that
\* has not returned can take a step.
C13_Progress ==
    (pc = "running" /\ pc' = "running") =>
        /\ SubSeq(q', 1, Len(q) - 1) = Tail(q)
        /\ Remaining(SubSeq(q', Len(q), Len(q'))) < SubdivisionSize(Head(q).side_length)

C13_NeverStuck == pc = "running" => ENABLED NextCheckers

\* C13: covers_unit_circle, get_all_uncovered_squares,
\* get_biggest_uncovered_square and get_biggest_semicovered_square terminate,
\* for every circle list and epsilon: a square that reaches the halving step
\* with a halved side length below epsilon is not subdivided and counts as
\* covered (no failure, no returned or yielded square, no error), so with
\* epsilon <= 1 every examined square has a side length of at least epsilon and
\* a subdivision depth of at most ceil(log2(1 / epsilon)).  Termination of the
\* two searches is a step count that every iteration decreases.
C13_Terminates ==
    /\ [](C13_ResolutionLimit /\ C13_NeverStuck)
    /\ [][C13_DroppedAtLimit /\ C13_Progress]_<<pc, q>>

\* A breadth-first search is about to examine a square at the resolution limit,
\* at the deepest level epsilon allows, below the quadrants.
C13_Witness ==
    /\ pc = "running" /\ q # <<>>
    /\ RatLeq(epsilon, Rat(1, 2))
    /\ AtResolutionLimit(Head(q), Threshold)
    /\ Head(q).side_length * 2 ^ CeilLog2Inverse(epsilon, 0) \in {Scale, 2 * Scale}

(***************************************************************************)
(* Termination of binary_search, under SpecSearch.                         *)
(***************************************************************************)
\* A step that runs the loop body once, and a step that leaves the loop.
IsIteration == pc = "running" /\ pc' = "running"
IsExit == pc = "running" /\ pc' = "done"

\* The iteration calls the evaluator once, at the midpoint of the bracket, and
\* replaces one end of the bracket by it; the bracket stays inside the bounds.
CallsEvaluatorAtMidpoint ==
    /\ Len(calls') = Len(calls) + 1
    /\ 2 * calls'[Len(calls')].p = start + end
    /\ \/ start' = calls'[Len(calls')].p /\ end' = end
       \/ end' = calls'[Len(calls')].p /\ start' = start
    /\ bounds[1] <= start' /\ start' <= end' /\ end' <= bounds[2]

\* C14: binary_search terminates for every start <= end, every epsilon and every
\* evaluator: an iteration calls the evaluator once at the midpoint of the
\* bracket and replaces one end by it, the bracket stays inside the bounds the
\* search was called with, its width halves in every iteration, and the loop
\* exits as soon as the width is at most epsilon.
C14_WidthHalves ==
    [][/\ IsIteration =>
              /\ WiderThanEpsilon(start, end)
              /\ CallsEvaluatorAtMidpoint
              /\ 2 * (end' - start') = end - start
       /\ IsExit => ~WiderThanEpsilon(start, end)]_<<pc, start, end, calls>>

\* The same for an epsilon of at least the spacing of the floats.
C14_WidthHalvesAboveSpacing ==
    [][(epsilon.d <= epsilon.n * Ticks) =>
           /\ IsIteration =>
                  /\ WiderThanEpsilon(start, end)
                  /\ CallsEvaluatorAtMidpoint
                  /\ 2 * (end' - start') = end - start
           /\ IsExit => ~WiderThanEpsilon(start, end)]_<<pc, start, end, calls>>

\* With an epsilon below the spacing of the floats a bracket of two adjacent
\* floats is wider than epsilon, and an iteration can leave it as it is.
C14_NoProgressBelowSpacing ==
    [][IsIteration => (end' - start' < end - start)]_<<pc, start, end, calls>>

(***************************************************************************)
(* The last-circle branch of get_distance_traveled, under SpecDistance.    *)
(***************************************************************************)
\* C15: the shortcut for the last circle (2 * |center of circles[0]| * r taken
\* off the step distance) is applied at the final position of the list and at
\* no earlier position, also when an earlier circle has the same (x, y, r) as
\* the last one.
C15_ShortcutOnlyAtFinalPosition ==
    pc # "idle" => shortcut_at \subseteq {Len(circles)}

\* The shortcut is applied at every position whose circle equals the last one.
C15_ShortcutWhereEqualToLast ==
    Returned("get_distance_traveled") =>
        \A i \in 1..Len(circles) :
            (i < idx /\ circles[i] = circles[Len(circles)]) => i \in shortcut_at

(***************************************************************************)
(* The recursive verdict and the breadth-first searches, under             *)
(* SpecCheckers.                                                           *)
(***************************************************************************)
\* C16: for every circle list and epsilon, covers_unit_circle returns True if
\* and only if get_biggest_semicovered_square returns None, and when
\* covers_unit_circle returns True get_biggest_uncovered_square returns None.
C16_VerdictAgreesWithSearch ==
    /\ Returned("get_biggest_semicovered_square") =>
          (ret = None <=> covers_unit_circle(circles))
    /\ Returned("get_biggest_uncovered_square") =>
          (covers_unit_circle(circles) => ret = None)
    /\ Returned("covers_unit_circle") =>
          (ret = TRUE <=>
              \A g \in Range(ExaminedFromQuadrants(0)) : num_uncovered_corners(circles, g) = 0)

\* The search went through a subdivision of a cover by two circles and found
\* no square with an uncovered corner.
C16_Witness ==
    /\ Returned("get_biggest_semicovered_square")
    /\ ret = None
    /\ covers_unit_circle(circles)
    /\ Len(circles) = 2
    /\ \E g \in Range(ExaminedFromQuadrants(0)) : g.side_length < Scale

==========================================================================
